---- MODULE Spec2Model ----
(***************************************************************************)
(* A model of efficientnet/efficientnet_pred.py: the scaling arithmetic    *)
(* (round_filters, round_repeats), the padding rule (correct_pad), the     *)
(* inverted-residual block constructor (block) and the network builder     *)
(* (EfficientNet) with its eight named variants.                           *)
(*                                                                         *)
(* Numbers.  Python floats are modelled as exact decimal fractions:        *)
(*   - width_coefficient and depth_coefficient are carried in tenths       *)
(*     (1.1 is 11), as is drop_connect_rate (0.2 is 2);                    *)
(*   - se_ratio is carried in hundredths (0.25 is 25);                     *)
(*   - a drop rate is the fraction num/den kept as the record [num, den].  *)
(* Comparisons of fractions are made by cross-multiplication.              *)
(*                                                                         *)
(* A tensor is its static shape [h, w, c]; an unknown (None) spatial       *)
(* dimension is the value None.                                            *)
(***************************************************************************)
EXTENDS Integers, Sequences, FiniteSets

VARIABLES
    DEFAULT_BLOCKS_ARGS, \* the module-level stage table (a Python list of dicts)
    pc,                  \* position inside EfficientNet(), "idle" between calls
    call,                \* the arguments of the running EfficientNet() call
    img_input,           \* the input tensor's shape once Input() was called
    x,                   \* the tensor being threaded through the layers
    blocks_args,         \* the local blocks_args of the running call
    blocks,              \* the local `blocks` (the divisor of the drop rate)
    i, j, b,             \* the loop counters of the block loop
    reps,                \* the evaluated range bound of the inner loop
    built,               \* the block() calls made so far by the running call
    top,                 \* the layers built after the block loop
    model,               \* whether Model(...) was constructed
    fetched, loaded,     \* whether a weight file was fetched / loaded
    err,                 \* the exception that ended the call, "" if none
    nbuilds,             \* calls of EfficientNet() completed or failed so far
    fn, arg, ret         \* a direct call of one of the helper functions

vars == <<DEFAULT_BLOCKS_ARGS, pc, call, img_input, x, blocks_args, blocks,
          i, j, b, reps, built, top, model, fetched, loaded, err, nbuilds,
          fn, arg, ret>>

buildVars == <<DEFAULT_BLOCKS_ARGS, pc, call, img_input, x, blocks_args, blocks,
               i, j, b, reps, built, top, model, fetched, loaded, err, nbuilds>>

fnVars == <<fn, arg, ret>>

----------------------------------------------------------------------------
(* Bounds of the model *)

MaxFilters == 130     \* filters drawn for round_filters: 1..MaxFilters
MaxWidth == 21        \* width_coefficient drawn in tenths: 1..MaxWidth
MaxDivisor == 9       \* depth_divisor drawn: 1..MaxDivisor
MaxRepeats == 8       \* repeats drawn for round_repeats: 1..MaxRepeats
MaxDepth == 32        \* depth_coefficient drawn in tenths: 1..MaxDepth
MaxSize == 12         \* spatial sizes drawn for correct_pad: 1..MaxSize
MaxKernel == 7        \* kernel sizes drawn: 1..MaxKernel
MaxBuilds == 2        \* EfficientNet() calls in one behaviour
MaxSeFilters == 40    \* filters_in drawn for the squeeze phase: 1..MaxSeFilters
MaxSeRatio == 110     \* se_ratio drawn in hundredths: 0..MaxSeRatio

----------------------------------------------------------------------------
(* Helpers of the arithmetic *)

Max(a, c) == IF a >= c THEN a ELSE c

\* The unknown dimension of K.int_shape (Python's None).
None == 0

----------------------------------------------------------------------------
(* round_filters, lines 311-319.  `width` is width_coefficient in tenths.  *)
(* scaled10 is ten times the float `filters` after `filters *= width`.     *)

round_filters_no_correction(filters, width, divisor) ==
    LET scaled10 == filters * width
    IN  Max(divisor, (((2 * scaled10 + 10 * divisor) \div 20) \div divisor) * divisor)

round_filters_floor(filters, width, divisor) ==
    LET scaled10 == filters * width
        new_filters == Max(divisor, ((scaled10 \div 10) \div divisor) * divisor)
    IN  IF 100 * new_filters < 9 * scaled10
        THEN new_filters + divisor
        ELSE new_filters

round_filters(filters, width, divisor) ==
    LET scaled10 == filters * width
        \* int(filters + divisor / 2) // divisor * divisor
        new_filters ==
            Max(divisor, (((2 * scaled10 + 10 * divisor) \div 20) \div divisor) * divisor)
    IN  \* if new_filters < 0.9 * filters: new_filters += divisor
        IF 100 * new_filters < 9 * scaled10
        THEN new_filters + divisor
        ELSE new_filters

(* round_repeats, lines 321-324.  `depth` is depth_coefficient in tenths.  *)

round_repeats_trunc(repeats, depth) == (depth * repeats) \div 10

round_repeats(repeats, depth) ==
    LET prod10 == depth * repeats
    IN  \* int(math.ceil(depth_coefficient * repeats))
        IF prod10 % 10 = 0 THEN prod10 \div 10 ELSE prod10 \div 10 + 1

----------------------------------------------------------------------------
(* correct_pad, lines 131-154.  input_size is <<height, width>> as read    *)
(* from K.int_shape; the result is <<<<top, bottom>>, <<left, right>>>>.   *)
(* A known height with an unknown width makes `1 - None % 2` raise         *)
(* TypeError: the result is then the empty tuple.                          *)

correct_pad_always_one(input_size, kernel_size) ==
    LET correct == <<kernel_size \div 2, kernel_size \div 2>>
    IN  IF input_size[1] # None /\ input_size[2] = None
        THEN <<>>
        ELSE <<<<correct[1] - 1, correct[1]>>, <<correct[2] - 1, correct[2]>>>>

correct_pad(input_size, kernel_size) ==
    LET correct == <<kernel_size \div 2, kernel_size \div 2>>
        adjust == IF input_size[1] = None
                  THEN <<1, 1>>
                  ELSE <<1 - (input_size[1] % 2), 1 - (input_size[2] % 2)>>
    IN  IF input_size[1] # None /\ input_size[2] = None
        THEN <<>>
        ELSE <<<<correct[1] - adjust[1], correct[1]>>,
               <<correct[2] - adjust[2], correct[2]>>>>

(* The output length of a Keras convolution along one axis (the shape rule *)
(* of Conv2D / DepthwiseConv2D used at lines 213 and 329), and of          *)
(* ZeroPadding2D (lines 209 and 328).  An unknown length stays unknown.    *)

conv_output_length(input_length, filter_size, padding, stride) ==
    IF input_length = None THEN None
    ELSE IF padding = "same"
         THEN (input_length + stride - 1) \div stride
         ELSE (input_length - filter_size + 1 + stride - 1) \div stride

zero_padding(input_length, pad) ==
    IF input_length = None THEN None ELSE input_length + pad[1] + pad[2]

(* The depthwise convolution of block(), lines 207-214, along both spatial *)
(* axes: the sizes <<h, w>> that come out of it, <<>> if correct_pad       *)
(* raised.                                                                 *)

\* lines 208-214 without the ZeroPadding2D before the valid convolution
dwconv_no_pad(size, kernel_size, strides) ==
    <<conv_output_length(size[1], kernel_size,
                         IF strides = 2 THEN "valid" ELSE "same", strides),
      conv_output_length(size[2], kernel_size,
                         IF strides = 2 THEN "valid" ELSE "same", strides)>>

dwconv(size, kernel_size, strides) ==
    IF strides = 2
    THEN LET pad == correct_pad(size, kernel_size)
         IN  IF pad = <<>> THEN <<>>
             ELSE <<conv_output_length(zero_padding(size[1], pad[1]),
                                       kernel_size, "valid", strides),
                    conv_output_length(zero_padding(size[2], pad[2]),
                                       kernel_size, "valid", strides)>>
    ELSE <<conv_output_length(size[1], kernel_size, "same", strides),
           conv_output_length(size[2], kernel_size, "same", strides)>>

----------------------------------------------------------------------------
(* block, lines 175-249.  inputs is the shape [h, w, c] of the input       *)
(* tensor, drop_rate the fraction [num, den], se_ratio is in hundredths.   *)
(* The result is [layers, out, error]: the layers created in order, each   *)
(* <<name suffix, channels of its output>>, the shape of the returned      *)
(* tensor, and the exception a layer raised ("" if none).                  *)

\* line 244 without the test on the filters
has_skip_ignoring_filters(id_skip, strides, filters_in, filters_out) ==
    id_skip = TRUE /\ strides = 1

\* line 244: id_skip is True and strides == 1 and filters_in == filters_out
has_skip(id_skip, strides, filters_in, filters_out) ==
    id_skip = TRUE /\ strides = 1 /\ filters_in = filters_out

\* line 219: 0 < se_ratio <= 1
has_se(se_ratio) == 0 < se_ratio /\ se_ratio <= 100

\* line 220 with round() in the place of int()
filters_se_round(filters_in, se_ratio) == Max(1, (filters_in * se_ratio + 50) \div 100)

\* line 220: max(1, int(filters_in * se_ratio))
filters_se(filters_in, se_ratio) == Max(1, (filters_in * se_ratio) \div 100)

block(inputs, drop_rate, filters_in, filters_out, kernel_size, strides, expand_ratio, se_ratio, id_skip) ==
    LET filters == filters_in * expand_ratio
        \* Expansion phase, lines 197-205
        expand == IF expand_ratio # 1
                  THEN << <<"expand_conv", filters>>, <<"expand_bn", filters>>,
                          <<"expand_activation", filters>> >>
                  ELSE << >>
        c1 == IF expand_ratio # 1 THEN filters ELSE inputs.c
        \* Depthwise convolution, lines 208-216
        size == dwconv(<<inputs.h, inputs.w>>, kernel_size, strides)
        pad_error == size = << >>
        dw == (IF strides = 2 THEN << <<"dwconv_pad", c1>> >> ELSE << >>)
              \o << <<"dwconv", c1>>, <<"bn", c1>>, <<"activation", c1>> >>
        \* Squeeze and excitation, lines 219-238
        se == IF has_se(se_ratio)
              THEN << <<"se_squeeze", c1>>, <<"se_reshape", filters>>,
                      <<"se_reduce", filters_se(filters_in, se_ratio)>>,
                      <<"se_expand", filters>>, <<"se_excite", c1>> >>
              ELSE << >>
        \* Reshape((1,1,filters)) and multiply need the tensor to have `filters` channels
        se_error == has_se(se_ratio) /\ c1 # filters
        \* Output phase, lines 241-247
        project == << <<"project_conv", filters_out>>, <<"project_bn", filters_out>> >>
        skip == has_skip(id_skip, strides, filters_in, filters_out)
        drop == IF skip /\ drop_rate.num > 0
                THEN << <<"drop", filters_out>> >> ELSE << >>
        addl == IF skip THEN << <<"add", filters_out>> >> ELSE << >>
        \* add([x, inputs]) needs both tensors to have the same shape
        add_error == skip /\ inputs.c # filters_out
    IN  IF pad_error
        THEN [layers |-> expand, out |-> inputs, error |-> "TypeError"]
        ELSE IF se_error
        THEN [layers |-> expand \o dw, out |-> inputs, error |-> "ValueError"]
        ELSE IF add_error
        THEN [layers |-> expand \o dw \o se \o project \o drop, out |-> inputs,
              error |-> "ValueError"]
        ELSE [layers |-> expand \o dw \o se \o project \o drop \o addl,
              out |-> [h |-> size[1], w |-> size[2], c |-> filters_out],
              error |-> ""]

\* The names of the layers a block() call created.
LayerNames(r) == {r.layers[k][1] : k \in 1..Len(r.layers)}

----------------------------------------------------------------------------
(* The stage table, lines 91-106, and the eight variants, lines 400-470.   *)

InitialBlocksArgs == <<
    [kernel_size |-> 3, repeats |-> 1, filters_in |-> 32, filters_out |-> 16,
     expand_ratio |-> 1, id_skip |-> TRUE, strides |-> 1, se_ratio |-> 25],
    [kernel_size |-> 3, repeats |-> 2, filters_in |-> 16, filters_out |-> 24,
     expand_ratio |-> 6, id_skip |-> TRUE, strides |-> 2, se_ratio |-> 25],
    [kernel_size |-> 5, repeats |-> 2, filters_in |-> 24, filters_out |-> 40,
     expand_ratio |-> 6, id_skip |-> TRUE, strides |-> 2, se_ratio |-> 25],
    [kernel_size |-> 3, repeats |-> 3, filters_in |-> 40, filters_out |-> 80,
     expand_ratio |-> 6, id_skip |-> TRUE, strides |-> 2, se_ratio |-> 25],
    [kernel_size |-> 5, repeats |-> 3, filters_in |-> 80, filters_out |-> 112,
     expand_ratio |-> 6, id_skip |-> TRUE, strides |-> 1, se_ratio |-> 25],
    [kernel_size |-> 5, repeats |-> 4, filters_in |-> 112, filters_out |-> 192,
     expand_ratio |-> 6, id_skip |-> TRUE, strides |-> 2, se_ratio |-> 25],
    [kernel_size |-> 3, repeats |-> 1, filters_in |-> 192, filters_out |-> 320,
     expand_ratio |-> 6, id_skip |-> TRUE, strides |-> 1, se_ratio |-> 25] >>

\* model name suffix, width_coefficient, depth_coefficient, dropout_rate (tenths)
\* and default_size of EfficientNetB0 .. EfficientNetB7
Variants == <<
    [name |-> "b0", width |-> 10, depth |-> 10, default_size |-> 224, dropout_rate |-> 2],
    [name |-> "b1", width |-> 10, depth |-> 11, default_size |-> 240, dropout_rate |-> 2],
    [name |-> "b2", width |-> 11, depth |-> 12, default_size |-> 260, dropout_rate |-> 3],
    [name |-> "b3", width |-> 12, depth |-> 14, default_size |-> 300, dropout_rate |-> 3],
    [name |-> "b4", width |-> 14, depth |-> 18, default_size |-> 380, dropout_rate |-> 4],
    [name |-> "b5", width |-> 16, depth |-> 22, default_size |-> 456, dropout_rate |-> 4],
    [name |-> "b6", width |-> 18, depth |-> 26, default_size |-> 528, dropout_rate |-> 5],
    [name |-> "b7", width |-> 20, depth |-> 31, default_size |-> 600, dropout_rate |-> 5] >>

\* EfficientNet's defaults, lines 252-256: drop_connect_rate=0.2 (tenths), depth_divisor=8
drop_connect_rate == 2
depth_divisor == 8

----------------------------------------------------------------------------
(* Initial state: the module is imported, no call is running.              *)

NoCall == [variant |-> 0]

Init ==
    /\ DEFAULT_BLOCKS_ARGS = InitialBlocksArgs
    /\ pc = "idle"
    /\ call = NoCall
    /\ img_input = << >>
    /\ x = << >>
    /\ blocks_args = << >>
    /\ blocks = 0
    /\ i = 0
    /\ j = 0
    /\ b = 0
    /\ reps = 0
    /\ built = << >>
    /\ top = << >>
    /\ model = FALSE
    /\ fetched = FALSE
    /\ loaded = FALSE
    /\ err = ""
    /\ nbuilds = 0
    /\ fn = "none"
    /\ arg = << >>
    /\ ret = << >>

----------------------------------------------------------------------------
(* EfficientNet, lines 252-397, one action per phase of the function.      *)
(* The call is made through one of EfficientNetB0 .. EfficientNetB7 with   *)
(* input_tensor left at None.                                              *)

\* The values drawn for the keyword arguments.
WeightsArgs == {"imagenet", "None", "weights.h5", "missing.h5"}
PoolingArgs == {"None", "avg", "max"}
ClassesArgs == {1000, 10}
\* input_shape without its channel entry: << >> is input_shape=None
InputShapes == {<< >>, <<None, None>>, <<224, 224>>, <<16, 16>>}

\* os.path.exists(weights): the one weight file on disk
path_exists(weights) == weights = "weights.h5"

\* line 283
weights_invalid(weights) ==
    ~(weights \in {"imagenet", "None"} \/ path_exists(weights))

\* line 289 without the test of include_top
head_size_invalid_any_top(weights, include_top, num_classes) ==
    weights = "imagenet" /\ num_classes # 1000

\* line 289
head_size_invalid(weights, include_top, num_classes) ==
    weights = "imagenet" /\ include_top /\ num_classes # 1000

\* _obtain_input_shape (imagenet_utils, not among the sources): the given
\* shape, the default square size when none is given; "ValueError" when a
\* known spatial size is below min_size.
min_size == 32

obtain_input_shape(input_shape, default_size) ==
    IF input_shape = << >>
    THEN [h |-> default_size, w |-> default_size, c |-> 3]
    ELSE IF \E a \in 1..2 : input_shape[a] # None /\ input_shape[a] < min_size
    THEN [h |-> 0, w |-> 0, c |-> 0]
    ELSE [h |-> input_shape[1], w |-> input_shape[2], c |-> 3]

\* The table as the block loop's writes leave it when the loop wrote to the
\* table itself (no copy made).
table_after_write_shared(table, local) == local

\* line 336: blocks_args is a deep copy, so what the loop writes to it never
\* reaches the module-level table.
table_after_write(table, local) == table

\* line 339: sum(args['repeats'] for args in blocks_args)
RECURSIVE sum_repeats(_, _)
sum_repeats(args_list, n) ==
    IF n = 0 THEN 0 ELSE args_list[n].repeats + sum_repeats(args_list, n - 1)

\* lines 348-350 without the reset of strides
loop_args_keep_strides(args, jj) ==
    IF jj > 0
    THEN [args EXCEPT !.filters_in = args.filters_out]
    ELSE args

\* lines 348-350 without the assignment of filters_in
loop_args_keep_filters_in(args, jj) ==
    IF jj > 0
    THEN [args EXCEPT !.strides = 1]
    ELSE args

\* lines 348-350: blocks after the first of a stage
loop_args(args, jj) ==
    IF jj > 0
    THEN [args EXCEPT !.strides = 1, !.filters_in = args.filters_out]
    ELSE args

\* args.pop('repeats')
pop_repeats(args) == [k \in DOMAIN args \ {"repeats"} |-> args[k]]

Variant == Variants[call.variant]

Fail(e) ==
    /\ pc' = "error"
    /\ err' = e

\* EfficientNetB0 .. EfficientNetB7, lines 400-470
EfficientNetBn ==
    /\ pc = "idle"
    /\ nbuilds < MaxBuilds
    /\ \E v \in 1..Len(Variants), include_top \in BOOLEAN, weights \in WeightsArgs,
          input_shape \in InputShapes, pooling \in PoolingArgs,
          num_classes \in ClassesArgs :
          call' = [variant |-> v, include_top |-> include_top, weights |-> weights,
                   input_shape |-> input_shape, pooling |-> pooling,
                   num_classes |-> num_classes]
    /\ pc' = "validate"
    /\ UNCHANGED <<DEFAULT_BLOCKS_ARGS, img_input, x, blocks_args, blocks, i, j, b,
                   reps, built, top, model, fetched, loaded, err, nbuilds>>
    /\ UNCHANGED fnVars

\* lines 283-291
Validate ==
    /\ pc = "validate"
    /\ IF weights_invalid(call.weights)
       THEN Fail("ValueError: weights")
       ELSE IF head_size_invalid(call.weights, call.include_top, call.num_classes)
       THEN Fail("ValueError: classes")
       ELSE pc' = "input" /\ err' = err
    /\ UNCHANGED <<DEFAULT_BLOCKS_ARGS, call, img_input, x, blocks_args, blocks, i, j,
                   b, reps, built, top, model, fetched, loaded, nbuilds>>
    /\ UNCHANGED fnVars

\* lines 294-307
ObtainInput ==
    /\ pc = "input"
    /\ LET input_shape == obtain_input_shape(call.input_shape, Variant.default_size)
       IN  IF input_shape.c = 0
           THEN Fail("ValueError: input size") /\ img_input' = img_input
           ELSE pc' = "stem" /\ err' = err /\ img_input' = input_shape
    /\ UNCHANGED <<DEFAULT_BLOCKS_ARGS, call, x, blocks_args, blocks, i, j, b, reps,
                   built, top, model, fetched, loaded, nbuilds>>
    /\ UNCHANGED fnVars

\* lines 327-332: stem_conv_pad, stem_conv (3x3, stride 2, valid), stem_bn,
\* stem_activation
Stem ==
    /\ pc = "stem"
    /\ LET size == dwconv(<<img_input.h, img_input.w>>, 3, 2)
       IN  IF size = << >>
           THEN Fail("TypeError") /\ x' = x
           ELSE /\ pc' = "copy"
                /\ err' = err
                /\ x' = [h |-> size[1], w |-> size[2],
                         c |-> round_filters(32, Variant.width, depth_divisor)]
    /\ UNCHANGED <<DEFAULT_BLOCKS_ARGS, call, img_input, blocks_args, blocks, i, j, b,
                   reps, built, top, model, fetched, loaded, nbuilds>>
    /\ UNCHANGED fnVars

\* lines 335-339: the copy of the table, b = 0 and blocks
BeginBlocks ==
    /\ pc = "copy"
    /\ blocks_args' = DEFAULT_BLOCKS_ARGS
    /\ b' = 0
    /\ IF \E s \in 1..Len(DEFAULT_BLOCKS_ARGS) : "repeats" \notin DOMAIN DEFAULT_BLOCKS_ARGS[s]
       THEN Fail("KeyError") /\ UNCHANGED <<blocks, i>>
       ELSE /\ blocks' = sum_repeats(DEFAULT_BLOCKS_ARGS, Len(DEFAULT_BLOCKS_ARGS))
            /\ i' = 1
            /\ pc' = "stage"
            /\ err' = err
    /\ UNCHANGED <<DEFAULT_BLOCKS_ARGS, call, img_input, x, j, reps, built, top, model,
                   fetched, loaded, nbuilds>>
    /\ UNCHANGED fnVars

\* lines 340-346: the head of one iteration of the outer loop, up to the
\* evaluation of range(round_repeats(args.pop('repeats')))
StageEnter ==
    /\ pc = "stage"
    /\ LET args == blocks_args[i]
       IN  IF ~(args.repeats > 0)
           THEN Fail("AssertionError") /\ UNCHANGED <<blocks_args, reps, j>>
           ELSE /\ blocks_args' =
                      [blocks_args EXCEPT ![i] = pop_repeats(
                          [args EXCEPT
                              !.filters_in =
                                  round_filters(args.filters_in, Variant.width, depth_divisor),
                              !.filters_out =
                                  round_filters(args.filters_out, Variant.width, depth_divisor)])]
                /\ reps' = round_repeats(args.repeats, Variant.depth)
                /\ j' = 0
                /\ pc' = "block"
                /\ err' = err
    /\ DEFAULT_BLOCKS_ARGS' = table_after_write(DEFAULT_BLOCKS_ARGS, blocks_args')
    /\ UNCHANGED <<call, img_input, x, blocks, i, b, built, top, model, fetched, loaded,
                   nbuilds>>
    /\ UNCHANGED fnVars

\* lines 346-353: one iteration of the inner loop, then the loops' exits
BuildBlock ==
    /\ pc = "block"
    /\ LET args == loop_args(blocks_args[i], j)
           drop_rate == [num |-> drop_connect_rate * b, den |-> 10 * blocks]
           r == block(x, drop_rate, args.filters_in, args.filters_out,
                      args.kernel_size, args.strides, args.expand_ratio,
                      args.se_ratio, args.id_skip)
       IN  /\ blocks_args' = [blocks_args EXCEPT ![i] = args]
           /\ IF r.error # ""
              THEN Fail(r.error) /\ UNCHANGED <<x, built, b, j, i>>
              ELSE /\ x' = r.out
                   /\ built' = Append(built,
                          [stage |-> i, j |-> j, drop_rate |-> drop_rate,
                           args |-> args, inputs |-> x, out |-> r.out,
                           names |-> LayerNames(r)])
                   /\ b' = b + 1
                   /\ j' = j + 1
                   /\ err' = err
                   /\ IF j + 1 < reps
                      THEN pc' = "block" /\ i' = i
                      ELSE IF i < Len(blocks_args)
                      THEN pc' = "stage" /\ i' = i + 1
                      ELSE pc' = "top" /\ i' = i
    /\ DEFAULT_BLOCKS_ARGS' = table_after_write(DEFAULT_BLOCKS_ARGS, blocks_args')
    /\ UNCHANGED <<call, img_input, blocks, reps, top, model, fetched, loaded, nbuilds>>
    /\ UNCHANGED fnVars

\* lines 356-359: top_conv, top_bn, top_activation
BuildTop ==
    /\ pc = "top"
    /\ x' = [x EXCEPT !.c = round_filters(1280, Variant.width, depth_divisor)]
    /\ top' = <<"top_conv", "top_bn", "top_activation">>
    /\ pc' = "head"
    /\ UNCHANGED <<DEFAULT_BLOCKS_ARGS, call, img_input, blocks_args, blocks, i, j, b,
                   reps, built, model, fetched, loaded, err, nbuilds>>
    /\ UNCHANGED fnVars

\* lines 361-371: the classifier head, or the optional pooling.  A pooled
\* tensor has no spatial axes left: its shape is [c].
BuildHead ==
    /\ pc = "head"
    /\ IF call.include_top
       THEN /\ x' = [c |-> call.num_classes]
            /\ top' = top \o <<"avg_pool">>
                          \o (IF Variant.dropout_rate > 0 THEN <<"top_dropout">> ELSE << >>)
                          \o <<"probs">>
       ELSE IF call.pooling = "avg"
       THEN x' = [c |-> x.c] /\ top' = Append(top, "avg_pool")
       ELSE IF call.pooling = "max"
       THEN x' = [c |-> x.c] /\ top' = Append(top, "max_pool")
       ELSE x' = x /\ top' = top
    /\ pc' = "model"
    /\ UNCHANGED <<DEFAULT_BLOCKS_ARGS, call, img_input, blocks_args, blocks, i, j, b,
                   reps, built, model, fetched, loaded, err, nbuilds>>
    /\ UNCHANGED fnVars

\* lines 374-380: Model(inputs, x)
MakeModel ==
    /\ pc = "model"
    /\ model' = TRUE
    /\ pc' = "weights"
    /\ UNCHANGED <<DEFAULT_BLOCKS_ARGS, call, img_input, x, blocks_args, blocks, i, j,
                   b, reps, built, top, fetched, loaded, err, nbuilds>>
    /\ UNCHANGED fnVars

\* lines 383-395: get_file and load_weights; get_file may raise when the
\* file cannot be downloaded
LoadWeights ==
    /\ pc = "weights"
    /\ IF call.weights = "imagenet"
       THEN \/ fetched' = TRUE /\ loaded' = TRUE /\ pc' = "done" /\ err' = err
            \/ Fail("Exception: get_file") /\ UNCHANGED <<fetched, loaded>>
       ELSE /\ fetched' = fetched
            /\ loaded' = (call.weights # "None")
            /\ pc' = "done"
            /\ err' = err
    /\ UNCHANGED <<DEFAULT_BLOCKS_ARGS, call, img_input, x, blocks_args, blocks, i, j,
                   b, reps, built, top, model, nbuilds>>
    /\ UNCHANGED fnVars

\* line 397, or the exception leaving the function: the call is over and its
\* locals are gone
Return ==
    /\ pc \in {"done", "error"}
    /\ pc' = "idle"
    /\ call' = NoCall
    /\ img_input' = << >>
    /\ x' = << >>
    /\ blocks_args' = << >>
    /\ blocks' = 0
    /\ i' = 0
    /\ j' = 0
    /\ b' = 0
    /\ reps' = 0
    /\ built' = << >>
    /\ top' = << >>
    /\ model' = FALSE
    /\ fetched' = FALSE
    /\ loaded' = FALSE
    /\ err' = ""
    /\ nbuilds' = nbuilds + 1
    /\ UNCHANGED DEFAULT_BLOCKS_ARGS
    /\ UNCHANGED fnVars

Next ==
    \/ EfficientNetBn
    \/ Validate
    \/ ObtainInput
    \/ Stem
    \/ BeginBlocks
    \/ StageEnter
    \/ BuildBlock
    \/ BuildTop
    \/ BuildHead
    \/ MakeModel
    \/ LoadWeights
    \/ Return

Spec == Init /\ [][Next]_vars

----------------------------------------------------------------------------
(* Direct calls of the helper functions, each on inputs drawn from the     *)
(* bounded sets.                                                           *)

Sizes == {None} \cup (1..MaxSize)

DropRates == {[num |-> 0, den |-> 160], [num |-> 2, den |-> 160]}

CallRoundFilters ==
    /\ fn = "none"
    /\ \E filters \in 1..MaxFilters, width \in 1..MaxWidth, divisor \in 1..MaxDivisor :
        /\ fn' = "round_filters"
        /\ arg' = [filters |-> filters, width |-> width, divisor |-> divisor]
        /\ ret' = round_filters(filters, width, divisor)
        /\ UNCHANGED buildVars

CallRoundRepeats ==
    /\ fn = "none"
    /\ \E repeats \in 1..MaxRepeats, depth \in 1..MaxDepth :
        /\ fn' = "round_repeats"
        /\ arg' = [repeats |-> repeats, depth |-> depth]
        /\ ret' = round_repeats(repeats, depth)
        /\ UNCHANGED buildVars

CallCorrectPad ==
    /\ fn = "none"
    /\ \E h \in Sizes, w \in Sizes, kernel_size \in 1..MaxKernel :
        /\ fn' = "correct_pad"
        /\ arg' = [h |-> h, w |-> w, kernel_size |-> kernel_size]
        /\ ret' = correct_pad(<<h, w>>, kernel_size)
        /\ UNCHANGED buildVars

CallDwconv ==
    /\ fn = "none"
    /\ \E h \in Sizes, w \in Sizes, kernel_size \in 1..MaxKernel, strides \in {1, 2} :
        /\ fn' = "dwconv"
        /\ arg' = [h |-> h, w |-> w, kernel_size |-> kernel_size, strides |-> strides]
        /\ ret' = dwconv(<<h, w>>, kernel_size, strides)
        /\ UNCHANGED buildVars

CallBlock ==
    /\ fn = "none"
    /\ \E s \in {7, 8}, c \in {16, 24}, drop_rate \in DropRates,
       filters_in \in {16, 24}, filters_out \in {16, 24}, kernel_size \in {3, 5},
       strides \in {1, 2}, expand_ratio \in {1, 6}, se_ratio \in {0, 25},
       id_skip \in BOOLEAN :
        /\ fn' = "block"
        /\ arg' = [inputs |-> [h |-> s, w |-> s, c |-> c], drop_rate |-> drop_rate,
                   filters_in |-> filters_in, filters_out |-> filters_out,
                   kernel_size |-> kernel_size, strides |-> strides,
                   expand_ratio |-> expand_ratio, se_ratio |-> se_ratio,
                   id_skip |-> id_skip]
        /\ ret' = block([h |-> s, w |-> s, c |-> c], drop_rate, filters_in,
                        filters_out, kernel_size, strides, expand_ratio, se_ratio,
                        id_skip)
        /\ UNCHANGED buildVars

\* block() over the range of filters_in and se_ratio, on an input that has
\* filters_in channels
CallBlockSE ==
    /\ fn = "none"
    /\ \E filters_in \in 1..MaxSeFilters, se_ratio \in 0..MaxSeRatio,
          expand_ratio \in {1, 6} :
        /\ fn' = "block"
        /\ arg' = [inputs |-> [h |-> 7, w |-> 7, c |-> filters_in],
                   drop_rate |-> [num |-> 2, den |-> 160],
                   filters_in |-> filters_in, filters_out |-> filters_in,
                   kernel_size |-> 3, strides |-> 1,
                   expand_ratio |-> expand_ratio, se_ratio |-> se_ratio,
                   id_skip |-> TRUE]
        /\ ret' = block([h |-> 7, w |-> 7, c |-> filters_in],
                        [num |-> 2, den |-> 160], filters_in, filters_in, 3, 1,
                        expand_ratio, se_ratio, TRUE)
        /\ UNCHANGED buildVars

\* The helper returns; its result is dropped.
ReturnFn ==
    /\ fn # "none"
    /\ fn' = "none"
    /\ arg' = << >>
    /\ ret' = << >>
    /\ UNCHANGED buildVars

NextFn ==
    \/ CallRoundFilters
    \/ CallRoundRepeats
    \/ CallCorrectPad
    \/ CallDwconv
    \/ CallBlock
    \/ CallBlockSE
    \/ ReturnFn

SpecFn == Init /\ [][NextFn]_vars

----------------------------------------------------------------------------
(* Properties of the helper functions, checked under SpecFn.               *)

Abs(a) == IF a >= 0 THEN a ELSE 0 - a

\* The positive multiples of d up to the first one above f.
PositiveMultiples(f, d) == {k * d : k \in 1..(f \div d + 1)}

\* m is a positive multiple of d and no positive multiple of d is nearer to f.
IsNearestMultiple(m, f, d) ==
    /\ m \in PositiveMultiples(f, d)
    /\ \A m2 \in PositiveMultiples(f, d) : Abs(m - f) <= Abs(m2 - f)

\* The multiple of d (0 included) nearest to f, the upper one at a tie.
NearestMultipleUp(f, d) ==
    CHOOSE m \in PositiveMultiples(f, d) \cup {0} :
        \A m2 \in PositiveMultiples(f, d) \cup {0} :
            \/ Abs(m - f) < Abs(m2 - f)
            \/ (Abs(m - f) = Abs(m2 - f) /\ m >= m2)

IsRoundFilters8 == fn = "round_filters" /\ arg.width = 10 /\ arg.divisor = 8

\* C4 as claimed: round_filters(f, 1.0, 8) is the multiple of 8 nearest to f
\* and is not below 90% of f.
C4_NearestMultipleOf8 ==
    IsRoundFilters8 =>
        /\ IsNearestMultiple(ret, arg.filters, 8)
        /\ 10 * ret >= 9 * arg.filters

\* C4 amended: round_filters(f, 1.0, 8) is a positive multiple of 8 not below
\* 90% of f; it is the multiple of 8 nearest to f (the upper one at a tie)
\* when that multiple is positive and not below 90% of f, and the next
\* multiple of 8 above it otherwise, which happens exactly for
\* f in {1, 2, 3, 9, 10, 11, 18, 19, 27}.
C4_NearestOrNextMultipleOf8 ==
    IsRoundFilters8 =>
        LET f == arg.filters
            n == NearestMultipleUp(f, 8)
            fits == n >= 8 /\ 10 * n >= 9 * f
        IN  /\ ret % 8 = 0
            /\ ret >= 8
            /\ 10 * ret >= 9 * f
            /\ ret = IF fits THEN n ELSE n + 8
            /\ ~fits <=> f \in {1, 2, 3, 9, 10, 11, 18, 19, 27}

\* round_filters(27, 1.0, 8) = 32: the nearest multiple, 24, is below 90% of 27.
C4_Witness ==
    IsRoundFilters8 /\ arg.filters = 27 /\ ret = 32

\* C5: round_filters returns a multiple of depth_divisor that is at least
\* depth_divisor and at least 0.9 * filters * width_coefficient.
C5_RoundFiltersBounds ==
    fn = "round_filters" =>
        /\ ret % arg.divisor = 0
        /\ ret >= arg.divisor
        /\ 100 * ret >= 9 * arg.filters * arg.width

\* A call in which the correction step added one divisor (filters 9, width 1.1,
\* divisor 8: 9.9 rounds to 8, below 8.91; 16 is returned).
C5_Witness ==
    /\ fn = "round_filters"
    /\ arg = [filters |-> 9, width |-> 11, divisor |-> 8]
    /\ ret = 16

\* C6: round_repeats(r, d) is the least integer not below d * r; it is r when
\* d = 1.0, and it is at least 1.
C6_RoundRepeatsCeil ==
    fn = "round_repeats" =>
        /\ 10 * ret >= arg.depth * arg.repeats
        /\ 10 * (ret - 1) < arg.depth * arg.repeats
        /\ (arg.depth = 10 => ret = arg.repeats)
        /\ ret >= 1

\* round_repeats(3, 1.4) = 5: the product 4.2 is rounded up.
C6_Witness ==
    fn = "round_repeats" /\ arg = [repeats |-> 3, depth |-> 14] /\ ret = 5

\* The least integer not below s / 2.
HalfUp(s) == CHOOSE n \in 0..s : 2 * n >= s /\ 2 * (n - 1) < s

OddKernel(k) == k >= 3 /\ k % 2 = 1

\* C10: for an odd kernel K >= 3, correct_pad gives per axis the pad
\* (K//2 - (1 - S%2), K//2) when the spatial size is known, both entries
\* non-negative, and (K//2 - 1, K//2) when it is unknown; the stride-2 valid
\* convolution after that pad gives ceil(S/2) per axis, as a stride-2 'same'
\* convolution does.
C10_CorrectPad ==
    /\ (fn = "correct_pad" /\ OddKernel(arg.kernel_size)) =>
          LET half == arg.kernel_size \div 2
          IN  /\ (arg.h # None /\ arg.w # None) =>
                    /\ ret = << <<half - (1 - (arg.h % 2)), half>>,
                                <<half - (1 - (arg.w % 2)), half>> >>
                    /\ \A a \in 1..2 : \A e \in 1..2 : ret[a][e] >= 0
              /\ (arg.h = None /\ arg.w = None) =>
                    ret = << <<half - 1, half>>, <<half - 1, half>> >>
    /\ (fn = "dwconv" /\ OddKernel(arg.kernel_size) /\ arg.strides = 2
            /\ arg.h # None /\ arg.w # None) =>
          /\ ret = <<HalfUp(arg.h), HalfUp(arg.w)>>
          /\ ret = <<conv_output_length(arg.h, arg.kernel_size, "same", 2),
                     conv_output_length(arg.w, arg.kernel_size, "same", 2)>>

\* A stride-2 depthwise convolution of kernel 5 on an odd 7 x 9 input gives 4 x 5.
C10_Witness ==
    /\ fn = "dwconv"
    /\ arg = [h |-> 7, w |-> 9, kernel_size |-> 5, strides |-> 2]
    /\ ret = <<4, 5>>

\* C2: block() adds its input onto the projection exactly when id_skip is true,
\* strides is 1 and filters_in equals filters_out; the Dropout is created
\* exactly when, in addition, drop_rate > 0; in every other case the
\* projection's batch normalisation is the last layer and its output is
\* what block() returns.
C2_ResidualAdd ==
    (fn = "block" /\ ret.error = "") =>
        LET skip == /\ arg.id_skip
                    /\ arg.strides = 1
                    /\ arg.filters_in = arg.filters_out
            names == LayerNames(ret)
            last == ret.layers[Len(ret.layers)][1]
        IN  /\ "add" \in names <=> skip
            /\ "drop" \in names <=> (skip /\ arg.drop_rate.num > 0)
            /\ skip => last = "add"
            /\ ~skip => last = "project_bn"
            /\ ret.out.c = arg.filters_out

\* A block with filters_in # filters_out, strides 1 and id_skip true that was
\* built without add or drop.
C2_Witness ==
    /\ fn = "block"
    /\ ret.error = ""
    /\ arg.id_skip
    /\ arg.strides = 1
    /\ arg.filters_in # arg.filters_out
    /\ arg.drop_rate.num > 0
    /\ "add" \notin LayerNames(ret)
    /\ ret.layers[Len(ret.layers)][1] = "project_bn"

----------------------------------------------------------------------------
(* Properties of the builder, checked under Spec.                          *)

Running == pc \notin {"idle"}

\* The blocks a complete build of the running call's variant constructs:
\* the sum over the stages of round_repeats(repeats).
RECURSIVE TotalBlocks(_, _)
TotalBlocks(depth, n) ==
    IF n = 0 THEN 0
    ELSE round_repeats(InitialBlocksArgs[n].repeats, depth) + TotalBlocks(depth, n - 1)

\* C1 as claimed: the block with global index k - 1 gets
\* drop_connect_rate * (k - 1) / T, T the number of blocks constructed.
C1_DropRateOverConstructedBlocks ==
    Running =>
        \A k \in 1..Len(built) :
            LET T == TotalBlocks(Variant.depth, Len(InitialBlocksArgs))
                d == built[k].drop_rate
            IN  d.num * (10 * T) = (drop_connect_rate * (k - 1)) * d.den

\* The blocks of stage s among the first n built.
RECURSIVE StageCount(_, _)
StageCount(s, n) ==
    IF n = 0 THEN 0
    ELSE (IF built[n].stage = s THEN 1 ELSE 0) + StageCount(s, n - 1)

\* The stages whose inner loop has ended.
StagesDone ==
    IF pc \in {"stage", "block"} THEN 1..(i - 1)
    ELSE IF pc \in {"top", "head", "model", "weights", "done"}
    THEN 1..Len(InitialBlocksArgs)
    ELSE {}

\* C3: every stage gets exactly round_repeats(repeats) blocks, built in
\* sequence; the first with the blueprint's strides and
\* filters_in = round_filters(blueprint.filters_in), the later ones with
\* strides 1 and filters_in = filters_out = round_filters(blueprint.filters_out).
C3_StageBlocks ==
    Running =>
        /\ \A k \in 1..Len(built) :
              LET blk == built[k]
                  bp == InitialBlocksArgs[blk.stage]
                  w == Variant.width
              IN  /\ blk.j < round_repeats(bp.repeats, Variant.depth)
                  /\ blk.j = StageCount(blk.stage, k - 1)
                  /\ k > 1 => built[k - 1].stage \in {blk.stage, blk.stage - 1}
                  /\ blk.args.filters_out = round_filters(bp.filters_out, w, depth_divisor)
                  /\ blk.j = 0 =>
                        /\ blk.args.strides = bp.strides
                        /\ blk.args.filters_in = round_filters(bp.filters_in, w, depth_divisor)
                  /\ blk.j > 0 =>
                        /\ blk.args.strides = 1
                        /\ blk.args.filters_in = blk.args.filters_out
        /\ \A s \in StagesDone :
              StageCount(s, Len(built)) =
                  round_repeats(InitialBlocksArgs[s].repeats, Variant.depth)

\* A complete B3 build (depth 1.4): stage 2 has ceil(2.8) = 3 blocks, the
\* third of them with strides 1 although the blueprint says 2.
C3_Witness ==
    /\ pc = "done"
    /\ call.variant = 4
    /\ \E k \in 1..Len(built) :
          /\ built[k].stage = 2
          /\ built[k].j = 2
          /\ built[k].args.strides = 1
          /\ InitialBlocksArgs[2].strides = 2

BadHead ==
    Running /\ call.weights = "imagenet" /\ call.include_top /\ call.num_classes # 1000

NothingBuilt ==
    /\ img_input = << >>
    /\ x = << >>
    /\ built = << >>
    /\ top = << >>
    /\ ~model
    /\ ~fetched
    /\ ~loaded

\* C7: with weights='imagenet', include_top=True and num_classes # 1000 the
\* call ends in the head-size ValueError with no input tensor, layer or model
\* constructed and no weight file fetched or loaded; with num_classes = 1000
\* the call passes validation and goes on to construction; with
\* include_top=False the class count is never the reason of an error.
C7_HeadSizeValidatedFirst ==
    /\ BadHead => /\ pc \in {"validate", "error"}
                  /\ pc = "error" => err = "ValueError: classes"
                  /\ NothingBuilt
    /\ (Running /\ call.weights = "imagenet" /\ call.include_top
            /\ call.num_classes = 1000) =>
          /\ err \notin {"ValueError: classes", "ValueError: weights"}
    /\ (Running /\ ~call.include_top) => err # "ValueError: classes"
    /\ err = "ValueError: classes" => BadHead

\* The B2 call with num_classes = 10 and pretrained weights, ended in the
\* head-size error.
C7_Witness ==
    /\ BadHead
    /\ call.variant = 3
    /\ call.num_classes = 10
    /\ pc = "error"
    /\ err = "ValueError: classes"

IsB0Features ==
    /\ pc = "done"
    /\ call.variant = 1
    /\ call.weights = "None"
    /\ ~call.include_top
    /\ call.pooling = "None"
    /\ img_input = [h |-> 224, w |-> 224, c |-> 3]

\* C8: B0 built with weights=None, include_top=False, pooling=None on a
\* 224 x 224 input ends with 1280 channels and 7 x 7 spatial
\* size: the stem and the four stride-2 stages halve the size five times.
C8_B0OutputShape ==
    IsB0Features =>
        /\ x = [h |-> 7, w |-> 7, c |-> 1280]
        /\ x.c = round_filters(1280, 10, 8)
        /\ 32 * x.h = img_input.h
        /\ Cardinality({k \in 1..Len(built) : built[k].args.strides = 2}) = 4
        /\ \A k \in 1..Len(built) :
              /\ built[k].args.strides = 2 => 2 * built[k].out.h = built[k].inputs.h
              /\ built[k].args.strides = 1 => built[k].out.h = built[k].inputs.h
        /\ 2 * built[1].inputs.h = img_input.h

\* A complete B0 feature extractor on the default input: 16 blocks, 7 x 7 x 1280.
C8_Witness ==
    IsB0Features /\ call.input_shape = << >> /\ x.h = 7 /\ x.w = 7 /\ x.c = 1280 /\ Len(built) = 16

\* The keyword arguments block() gets for block jj of stage s under width
\* coefficient w, read from the stage table as it was at import.
ExpectedArgs(s, jj, w) ==
    LET bp == InitialBlocksArgs[s]
        fout == round_filters(bp.filters_out, w, depth_divisor)
    IN  [kernel_size |-> bp.kernel_size,
         filters_in |-> IF jj = 0 THEN round_filters(bp.filters_in, w, depth_divisor)
                        ELSE fout,
         filters_out |-> fout,
         expand_ratio |-> bp.expand_ratio,
         id_skip |-> bp.id_skip,
         strides |-> IF jj = 0 THEN bp.strides ELSE 1,
         se_ratio |-> bp.se_ratio]

\* C9: DEFAULT_BLOCKS_ARGS keeps its initial value through every build,
\* failed ones included, so every build, first or later, passes the
\* per-block parameters the initial table gives.
C9_TableNeverMutated ==
    /\ DEFAULT_BLOCKS_ARGS = InitialBlocksArgs
    /\ Running =>
          \A k \in 1..Len(built) :
              built[k].args = ExpectedArgs(built[k].stage, built[k].j, Variant.width)
    /\ pc = "error" => err # "KeyError"

\* A second build that completed, after a first one had written to its copy.
C9_Witness ==
    /\ nbuilds = 1
    /\ pc = "done"
    /\ Len(built) = TotalBlocks(Variant.depth, Len(InitialBlocksArgs))
    /\ "repeats" \notin DOMAIN blocks_args[1]
    /\ blocks_args[2].strides = 1
    /\ DEFAULT_BLOCKS_ARGS[2].strides = 2

----------------------------------------------------------------------------
(* The squeeze-and-excitation phase of block(), checked under SpecFn.      *)

\* The output channels of the layer `name` of a block() call.
LayerChannels(r, name) ==
    r.layers[CHOOSE k \in 1..Len(r.layers) : r.layers[k][1] = name][2]

SeNames == {"se_squeeze", "se_reshape", "se_reduce", "se_expand", "se_excite"}

BlockReturned == fn = "block" /\ ret.error = ""

\* C11 as claimed: the gate is built exactly when 0 < se_ratio <= 1, its
\* reduce convolution has max(1, round(filters_in * se_ratio)) channels (n is
\* an integer nearest to the product, either one at a tie) and its expand
\* convolution has filters_in * expand_ratio channels.
C11_SeReduceRounded ==
    BlockReturned =>
        /\ "se_reduce" \in LayerNames(ret) <=> (0 < arg.se_ratio /\ arg.se_ratio <= 100)
        /\ "se_reduce" \in LayerNames(ret) =>
              /\ \E n \in 0..arg.filters_in :
                    /\ Abs(100 * n - arg.filters_in * arg.se_ratio) <= 50
                    /\ LayerChannels(ret, "se_reduce") = Max(1, n)
              /\ LayerChannels(ret, "se_expand") = arg.filters_in * arg.expand_ratio

\* C11 amended: the gate is built exactly when 0 < se_ratio <= 1; its reduce
\* convolution has max(1, floor(filters_in * se_ratio)) channels, the product
\* truncated and not rounded, and its expand convolution has
\* filters_in * expand_ratio channels, those of the tensor it gates.
C11_SeReduceTruncated ==
    BlockReturned =>
        LET names == LayerNames(ret)
            prod100 == arg.filters_in * arg.se_ratio
        IN  /\ "se_reduce" \in names <=> (0 < arg.se_ratio /\ arg.se_ratio <= 100)
            /\ "se_reduce" \in names => SeNames \subseteq names
            /\ "se_reduce" \notin names => SeNames \cap names = {}
            /\ "se_reduce" \in names =>
                  LET n == LayerChannels(ret, "se_reduce")
                  IN  /\ n >= 1
                      /\ prod100 < 100 => n = 1
                      /\ prod100 >= 100 => (100 * n <= prod100 /\ prod100 < 100 * (n + 1))
                      /\ LayerChannels(ret, "se_expand") = arg.filters_in * arg.expand_ratio
                      /\ LayerChannels(ret, "se_excite") = arg.filters_in * arg.expand_ratio
                      /\ LayerChannels(ret, "activation") = arg.filters_in * arg.expand_ratio

\* block(filters_in=7, se_ratio=0.25, expand_ratio=6): the product 1.75 is
\* truncated to 1 reduce channel, and the gate expands back to 42 channels.
C11_Witness ==
    /\ BlockReturned
    /\ arg.filters_in = 7
    /\ arg.se_ratio = 25
    /\ arg.expand_ratio = 6
    /\ LayerChannels(ret, "se_reduce") = 1
    /\ LayerChannels(ret, "se_expand") = 42

\* C12: for every variant built from the default table the channel counts
\* chain.  The stem outputs round_filters(32) channels, which is the
\* filters_in of the first block; every later block, inside a stage or
\* across a stage boundary, is given as filters_in the filters_out of the
\* block built immediately before it and receives that block's output; so
\* the tensor a block receives has exactly filters_in channels, and no
\* block fails on a channel mismatch.
C12_ChannelsChain ==
    Running =>
        /\ \A k \in 1..Len(built) :
              LET blk == built[k]
              IN  /\ blk.inputs.c = blk.args.filters_in
                  /\ blk.out.c = blk.args.filters_out
                  /\ k = 1 =>
                        /\ blk.inputs.c = round_filters(32, Variant.width, depth_divisor)
                        /\ blk.args.filters_in = blk.inputs.c
                  /\ k > 1 =>
                        /\ blk.args.filters_in = built[k - 1].args.filters_out
                        /\ blk.inputs = built[k - 1].out
        /\ pc = "error" => err # "ValueError"

\* A complete B7 build (width 2.0, depth 3.1): 55 blocks, among them one
\* inside a stage and one across a stage boundary, each receiving the
\* channels of its predecessor, and the first receiving the stem's 64.
C12_Witness ==
    /\ pc = "done"
    /\ call.variant = 8
    /\ Len(built) = 55
    /\ built[1].inputs.c = 64
    /\ built[1].args.filters_in = 64
    /\ \E k \in 2..Len(built) :
          /\ built[k].j = 0
          /\ built[k].stage = built[k - 1].stage + 1
          /\ built[k].args.filters_in = built[k - 1].args.filters_out
          /\ built[k].inputs.c = built[k].args.filters_in
    /\ \E k \in 2..Len(built) :
          /\ built[k].j > 0
          /\ built[k].stage = built[k - 1].stage
          /\ built[k].args.filters_in = built[k - 1].args.filters_out
          /\ built[k].inputs.c = built[k].args.filters_in

====
